---------------------------- MODULE Spec2Model ----------------------------
(***************************************************************************)
(* Turn controller of the claw machine (GameCanvas.updateStateMachine)     *)
(* together with the part of PhysicsWorld it drives.                       *)
(*                                                                         *)
(* Units.  clawDepth, clawAngle and targetDescentDepth are held in         *)
(* thousandths (0.012 is 12, 1.0 is 1000); slip probabilities and random   *)
(* draws in ten-thousandths (0.0035 is 35).  Lengths are in pixels, except *)
(* the hub X axis, which is held in whole units of Width / 16.             *)
(*                                                                         *)
(* One step of the model is one run of updateStateMachine.  The physics    *)
(* step and the hand tracker that gameLoop runs before it are external;    *)
(* what they produce on a tick (toy speeds, ray hits, toy distances, the   *)
(* random draw, the hand sample) is chosen by \E in the tick's action.     *)
(* SpecLoop steps through each run of gameLoop instead: physics step, hand *)
(* read, updateStateMachine, render.  SpecWorld steps PhysicsWorld through *)
(* calls of init and resize, SpecTracker steps HandTrackerService through  *)
(* calls of process.                                                       *)
(***************************************************************************)
EXTENDS Integers, FiniteSets, Sequences, TLC

VARIABLES
    state,               \* state.current
    clawX,               \* clawPos.current.x
    clawDepth,           \* clawDepth.current
    clawAngle,           \* clawAngle.current
    attachedToy,         \* attachedToy.current
    toyConstraint,       \* toyConstraint.current
    countdownTimer,      \* countdownTimer.current
    isGripUnstable,      \* isGripUnstable.current
    droppingToy,         \* droppingToy.current
    targetDescentDepth,  \* targetDescentDepth.current
    creditsRef,          \* creditsRef.current
    toysSettleTimer,     \* toysSettleTimer.current
    lastGesture,         \* lastGesture.current
    hasTriggeredGrab,    \* hasTriggeredGrab.current
    openGestureFrames,   \* openGestureFrames.current
    score,               \* React state score
    countdownValue,      \* React state countdownValue
    toys,                \* bodies labelled 'Toy' in engine.world
    worldConstraints,    \* number of constraints in engine.world
    obs,                 \* history: what the latest tick read from the physics world
    found,               \* history: what findToyAt returned to the latest attemptGrab
    waited,              \* history: ticks spent in WAITING_FOR_TOYS so far
    prevState,           \* history: state.current when the latest tick began
    pinchEdge,           \* history: what isPinchTriggered returned on the latest tick
    hist,                \* history: the hand samples up to the latest tick (kept by SpecTrace)
    frame,               \* the run of gameLoop in progress (stepped through by SpecLoop)
    pw,                  \* physics.current, the PhysicsWorld (stepped through by SpecWorld)
    tracker              \* handTracker.current, the HandTrackerService (stepped through by SpecTracker)

prog == <<state, clawX, clawDepth, clawAngle, attachedToy, toyConstraint,
          countdownTimer, isGripUnstable, droppingToy, targetDescentDepth,
          creditsRef, toysSettleTimer, lastGesture, hasTriggeredGrab,
          openGestureFrames, score, countdownValue, toys, worldConstraints>>

refs == <<prog, obs, found, waited, prevState, pinchEdge, hist>>

(* The two services the component holds *)
services == <<pw, tracker>>

vars == <<refs, frame, services>>

---------------------------------------------------------------------------
(* Bounds of the model *)

NumToys == 2
MaxHits == 2

(* Program constants *)

CLAW_TOP_HEIGHT == 50
OPEN_FRAMES_REQUIRED == 15
MAX_SETTLE_TIME == 300
CountdownStart == 180
StartCredits == 5
DepthRate == 12
AngleRate == 25
GrabRadius == 22
UnstableDist == 7
NoToyDepth == 900
Clearance == 40
TipOffset == 60
StableSlip == 35
UnstableSlip == 120
EarlyLift == 400
FallMargin == 100
VelocityThreshold == 20

(* The playfield: containerRef.clientWidth (in X units) and clientHeight (px) *)
Width == 16
Height == 630

(* null for a toy reference, and for toyConstraint *)
NULL == 0
NoConstraint == [bodyB |-> NULL, pointA |-> [x |-> 0, y |-> 0]]

GameState == {"WAITING_FOR_TOYS", "COUNTDOWN", "READY", "DESCENDING",
              "CLOSING", "LIFTING", "CARRYING", "DROPPING"}

GestureType == {"NONE", "POINT", "PINCH", "OPEN"}

Toys == 1..NumToys

(* HandInput: x is normalized and held in halves (1 is 0.5, 2 is 1.0); an  *)
(* absent hand carries the default x = 0.5.                                *)
HandInput ==
    [x : {1, 2}, gesture : GestureType, isPresent : {TRUE}]
      \cup [x : {1}, gesture : GestureType, isPresent : {FALSE}]

(* let hand = { x: 0.5, y: 0.5, gesture: NONE, isPresent: false } *)
DefaultHand == [x |-> 1, gesture |-> "NONE", isPresent |-> FALSE]

(* What the physics step can show of the toys on one tick. *)
Speeds == {19, 20}                 \* toy speed, tenths of a px per tick
TopYs == {100, 600}                \* topmost head vertex of the toy under the hub
GripDists == {0, 7, 8, 21, 22}     \* distance of a toy centre from the claw tip
RandomDraws == {20, 50, 100, 200, 5000}   \* Math.random() in ten-thousandths

DropYs == {300, 730, 731}          \* position.y of a released toy

(* The separator, the static body whose centre the claw tip can come near; *)
(* the ground and the side walls have their centres out of reach of any    *)
(* query the game makes, and are left out of the bodies findToyAt visits.  *)
Separator == -1

SeparatorDists == {0, 22}          \* distance of its centre from the claw tip

(* Matter.Composite.allBodies(engine.world), given the toys in the world *)
allBodies(ts) == {Separator} \cup ts

(* The distances findToyAt can measure on one call *)
Dists(ts) ==
    {dist \in [allBodies(ts) -> GripDists] : dist[Separator] \in SeparatorDists}

(* The world in order of creation: init adds the statics, then spawnToys *)
WorldOrder == <<Separator>> \o [i \in 1..NumToys |-> i]

(* body.label *)
Label(body) == IF body \in Toys THEN "Toy" ELSE "Separator"

(* A body as the vertical ray reports it: label, position.y of the centre   *)
(* and the topmost vertex of its head part.  A toy head is 50 px high; one  *)
(* toy hangs with its centre above the hub.  The ground lies at the floor.  *)
HeadRadius == 25
RayToys ==
    {[label |-> "Toy", y |-> top + HeadRadius, top |-> top] : top \in TopYs}
      \cup {[label |-> "Toy", y |-> CLAW_TOP_HEIGHT - 10, top |-> CLAW_TOP_HEIGHT - 35]}
RayStatics == {[label |-> "Ground", y |-> Height + 20, top |-> Height - 30]}

NoBody == [label |-> "None", y |-> 0, top |-> 0]

(* let nearestDistance = Infinity *)
Infinity == 1000000

NoHit == 0

(* Math.random() returns less than 1: 1.0 stands for no draw *)
NoDraw == 10000

(* obs when a tick read nothing: no speeds, no ray, no distances, no toy Y, *)
(* no random draw                                                           *)
NoObs ==
    [speed |-> <<>>, ray |-> NoHit, dist |-> <<>>, y |-> 0, rnd |-> NoDraw,
     hits |-> <<>>]

(* frame while a run of gameLoop is taken as one step: pc is "tick" *)
NoFrame == [pc |-> "tick", hand |-> DefaultHand, done |-> <<>>]

(* frame when gameLoop is first called: no step of the run taken yet *)
FirstFrame == [NoFrame EXCEPT !.pc = "start"]

(* hist while no history of the hand is kept *)
NoHist ==
    [tracked |-> FALSE, gesture |-> "NONE", isPresent |-> FALSE,
     hold |-> 0, openRun |-> 0, carried |-> 0]

(* hist before the first tick: the sample gameLoop starts from *)
FirstHist == [NoHist EXCEPT !.tracked = TRUE]

---------------------------------------------------------------------------
(* The refs of the component as one record, so that a handler reads and    *)
(* writes them in the order of its statements.                             *)

Cur ==
    [state |-> state, clawX |-> clawX, clawDepth |-> clawDepth,
     clawAngle |-> clawAngle, attachedToy |-> attachedToy,
     toyConstraint |-> toyConstraint, countdownTimer |-> countdownTimer,
     isGripUnstable |-> isGripUnstable, droppingToy |-> droppingToy,
     targetDescentDepth |-> targetDescentDepth, creditsRef |-> creditsRef,
     toysSettleTimer |-> toysSettleTimer, lastGesture |-> lastGesture,
     hasTriggeredGrab |-> hasTriggeredGrab,
     openGestureFrames |-> openGestureFrames, score |-> score,
     countdownValue |-> countdownValue, toys |-> toys,
     worldConstraints |-> worldConstraints]

Min(a, b) == IF a < b THEN a ELSE b
Max(a, b) == IF a > b THEN a ELSE b

(* const maxExtension = height - clawPos.current.y - 130 *)
maxExtension == Height - CLAW_TOP_HEIGHT - 130

(* clawPos.x += (targetX - clawPos.x) * 0.25, the product cut to whole units *)
Smooth(x, targetX) ==
    LET d == targetX - x
    IN  x + (IF d >= 0 THEN (d * 25) \div 100 ELSE -(((-d) * 25) \div 100))

(* Mutant: the hub follows the sample whether a hand is present or not. *)
MoveClaw_Always(s, h) == [s EXCEPT !.clawX = Smooth(@, (h.x * Width) \div 2)]

MoveClaw(s, h) ==
    IF h.isPresent THEN [s EXCEPT !.clawX = Smooth(@, (h.x * Width) \div 2)] ELSE s

(* Mutant: every release counts as one over the exit zone. *)
isInExitZone_Anywhere(x) == TRUE

(* const isInExitZone = clawPos.current.x >= width * 0.75 *)
isInExitZone(x) == 4 * x >= 3 * Width

(* Rising edge of PINCH; the caller stores hand.gesture in lastGesture. *)
isPinchTriggered(s, h) ==
    LET wasPinch == s.lastGesture = "PINCH"
        isPinchNow == h.gesture = "PINCH"
    IN  ~wasPinch /\ isPinchNow /\ h.isPresent

(* Mutant: one slow toy is enough (some instead of every). *)
areToysSettled_Some(bodies, speed) ==
    \E toy \in bodies : speed[toy] < VelocityThreshold

(* speed is the function toy -> Math.hypot(velocity.x, velocity.y) *)
areToysSettled(bodies, speed) ==
    IF bodies = {} THEN FALSE
    ELSE \A toy \in bodies : speed[toy] < VelocityThreshold

(* PhysicsWorld.findToyAt: the bodies are visited in world order (the order *)
(* of creation); dist is the function toy -> distance of its centre from    *)
(* the query point.                                                         *)
RECURSIVE findToyFrom(_, _, _, _, _)
findToyFrom(i, bodies, dist, closest, minDist) ==
    IF i > Len(WorldOrder) THEN closest
    ELSE LET body == WorldOrder[i]
         IN  IF body \in bodies /\ Label(body) = "Toy" /\ dist[body] < minDist
             THEN findToyFrom(i + 1, bodies, dist, body, dist[body])
             ELSE findToyFrom(i + 1, bodies, dist, closest, minDist)

(* Mutant: a toy at exactly radius is found too. *)
findToyAt_Within(bodies, dist, radius) ==
    findToyFrom(1, bodies, dist, NULL, radius + 1)

findToyAt(bodies, dist, radius) == findToyFrom(1, bodies, dist, NULL, radius)

(* Mutant: the body stays in the world. *)
removeBody_Keeps(bodies, body) == bodies

(* PhysicsWorld.removeBody *)
removeBody(bodies, body) == bodies \ {body}

(* The claw tip: hub + extension + the grip-centre offset *)
Tip(s) ==
    [x |-> s.clawX,
     y |-> CLAW_TOP_HEIGHT + (s.clawDepth * maxExtension) \div 1000 + TipOffset]

(* Mutant: the anchor is re-pinned with the former grip offset of 80 px. *)
updateConstraint_FormerOffset(s) ==
    IF s.attachedToy # NULL /\ s.toyConstraint # NoConstraint
    THEN [s EXCEPT !.toyConstraint.pointA = [x |-> Tip(s).x, y |-> Tip(s).y + 20]]
    ELSE s

updateConstraint(s) ==
    IF s.attachedToy # NULL /\ s.toyConstraint # NoConstraint
    THEN [s EXCEPT !.toyConstraint.pointA = Tip(s)]
    ELSE s

(* Mutant: a grip at exactly UnstableDist counts as unstable. *)
attemptGrab_UnstableAtBound(s, dist) ==
    LET toy == findToyAt(allBodies(s.toys), dist, GrabRadius)
    IN  IF toy # NULL
        THEN [s EXCEPT !.attachedToy = toy,
                       !.isGripUnstable = dist[toy] >= UnstableDist,
                       !.toyConstraint = [bodyB |-> toy, pointA |-> Tip(s)],
                       !.worldConstraints = @ + 1]
        ELSE [s EXCEPT !.isGripUnstable = FALSE]

attemptGrab(s, dist) ==
    LET toy == findToyAt(allBodies(s.toys), dist, GrabRadius)
    IN  IF toy # NULL
        THEN [s EXCEPT !.attachedToy = toy,
                       !.isGripUnstable = dist[toy] > UnstableDist,
                       !.toyConstraint = [bodyB |-> toy, pointA |-> Tip(s)],
                       !.worldConstraints = @ + 1]
        ELSE [s EXCEPT !.isGripUnstable = FALSE]

(* Mutant: the ray loop takes the nearest body below the hub, toy or not. *)
RECURSIVE nearestFrom_AnyLabel(_, _, _, _)
nearestFrom_AnyLabel(i, hits, nearestToy, nearestDistance) ==
    IF i > Len(hits) THEN nearestToy
    ELSE LET body == hits[i]
             distance == body.y - CLAW_TOP_HEIGHT
         IN  IF distance > 0 /\ distance < nearestDistance
             THEN nearestFrom_AnyLabel(i + 1, hits, body, distance)
             ELSE nearestFrom_AnyLabel(i + 1, hits, nearestToy, nearestDistance)

castRay_AnyLabel(hits) ==
    LET nearestToy == nearestFrom_AnyLabel(1, hits, NoBody, Infinity)
    IN  IF nearestToy # NoBody THEN nearestToy.top ELSE NoHit

(* for (const collision of collisions): the nearest toy below the hub *)
RECURSIVE nearestFrom(_, _, _, _)
nearestFrom(i, hits, nearestToy, nearestDistance) ==
    IF i > Len(hits) THEN nearestToy
    ELSE LET body == hits[i]
             distance == body.y - CLAW_TOP_HEIGHT
         IN  IF body.label = "Toy" /\ distance > 0 /\ distance < nearestDistance
             THEN nearestFrom(i + 1, hits, body, distance)
             ELSE nearestFrom(i + 1, hits, nearestToy, nearestDistance)

(* The ray cast of a triggering tick: topY of the head of the nearest toy   *)
(* below the hub, NoHit if the ray meets no such toy.                       *)
castRay(hits) ==
    LET nearestToy == nearestFrom(1, hits, NoBody, Infinity)
    IN  IF nearestToy # NoBody THEN nearestToy.top ELSE NoHit

(* Mutant: the upper clamp Math.min(1, ...) is missing. *)
TargetDepth_NoUpperClamp(ray) ==
    IF ray # NoHit
    THEN Max(100, ((ray - CLAW_TOP_HEIGHT - Clearance) * 1000) \div maxExtension)
    ELSE NoToyDepth

(* Descent target from the ray: ray is the top Y of the head of the nearest *)
(* toy hit below the hub, or NoHit.                                         *)
TargetDepth(ray) ==
    IF ray # NoHit
    THEN LET toyTopDistance == ray - CLAW_TOP_HEIGHT - Clearance
         IN  Min(1000, Max(100, (toyTopDistance * 1000) \div maxExtension))
    ELSE NoToyDepth

(* Mutant: the doubling covers liftProgress = 0.4 too. *)
SlipChance_DoublesAtBound(s) ==
    LET baseSlipChance == IF s.isGripUnstable THEN UnstableSlip ELSE StableSlip
        liftProgress == 1000 - s.clawDepth
    IN  IF liftProgress <= EarlyLift THEN baseSlipChance * 2 ELSE baseSlipChance

(* Per-tick slip probability of the LIFTING branch *)
SlipChance(s) ==
    LET baseSlipChance == IF s.isGripUnstable THEN UnstableSlip ELSE StableSlip
        liftProgress == 1000 - s.clawDepth
    IN  IF liftProgress < EarlyLift THEN baseSlipChance * 2 ELSE baseSlipChance

---------------------------------------------------------------------------
(* The branches of updateStateMachine *)

(* Mutant: > instead of >=. *)
settleTimedOut_Late(t) == t > MAX_SETTLE_TIME

(* toysSettleTimer.current >= MAX_SETTLE_TIME *)
settleTimedOut(t) == t >= MAX_SETTLE_TIME

Waiting(s, h, speed) ==
    LET t == s.toysSettleTimer + 1
    IN  IF areToysSettled(s.toys, speed) \/ settleTimedOut(t)
        THEN [s EXCEPT !.state = "COUNTDOWN", !.toysSettleTimer = 0]
        ELSE [s EXCEPT !.toysSettleTimer = t]

(* Mutant: the display is refreshed from the timer before the decrement. *)
Countdown_DisplaysLate(s, h) ==
    LET t == s.countdownTimer - 1
        s1 == [s EXCEPT !.countdownTimer = t,
                        !.countdownValue = IF s.countdownTimer % 60 = 0
                                           THEN (s.countdownTimer + 59) \div 60 ELSE @]
    IN  IF t <= 0
        THEN [s1 EXCEPT !.state = "READY", !.countdownValue = 0]
        ELSE s1

Countdown(s, h) ==
    LET t == s.countdownTimer - 1
        s1 == [s EXCEPT !.countdownTimer = t,
                        !.countdownValue = IF t % 60 = 0 THEN (t + 59) \div 60 ELSE @]
    IN  IF t <= 0
        THEN [s1 EXCEPT !.state = "READY", !.countdownValue = 0]
        ELSE s1

(* Mutant: the credit test is missing. *)
shouldGrab_NoCreditTest(s, h) == isPinchTriggered(s, h) /\ ~s.hasTriggeredGrab

(* isPinchTriggered() && creditsRef.current > 0 && !hasTriggeredGrab.current *)
shouldGrab(s, h) ==
    isPinchTriggered(s, h) /\ s.creditsRef > 0 /\ ~s.hasTriggeredGrab

(* Mutant: the grab is free, no credit is taken. *)
spendCredit_Free(s) == s

(* Mutant: two credits are taken. *)
spendCredit_Twice(s) == [s EXCEPT !.creditsRef = @ - 2]

(* creditsRef.current -= 1 *)
spendCredit(s) == [s EXCEPT !.creditsRef = @ - 1]

Ready(s, h, ray) ==
    LET s1 == MoveClaw([s EXCEPT !.clawAngle = 0,
                                 !.hasTriggeredGrab = FALSE,
                                 !.openGestureFrames = 0], h)
        s2 == [s1 EXCEPT !.lastGesture = h.gesture]
    IN  IF shouldGrab(s1, h)
        THEN [spendCredit([s2 EXCEPT !.hasTriggeredGrab = TRUE])
                EXCEPT !.state = "DESCENDING",
                       !.targetDescentDepth = TargetDepth(ray)]
        ELSE s2

(* Mutant: the descent follows the hand sideways, as READY does. *)
Descending_FollowsHand(s, h) ==
    LET d == s.clawDepth + DepthRate
        s1 == MoveClaw(s, h)
    IN  IF d >= s.targetDescentDepth
        THEN [s1 EXCEPT !.clawDepth = s.targetDescentDepth, !.state = "CLOSING"]
        ELSE [s1 EXCEPT !.clawDepth = d]

(* Mutant: the descent ends where its last step took the claw. *)
Descending_Overshoots(s, h) ==
    LET d == s.clawDepth + DepthRate
    IN  IF d >= s.targetDescentDepth
        THEN [s EXCEPT !.clawDepth = d, !.state = "CLOSING"]
        ELSE [s EXCEPT !.clawDepth = d]

(* Mutant: the descent ends in LIFTING, skipping CLOSING. *)
Descending_SkipsClosing(s, h) ==
    LET d == s.clawDepth + DepthRate
    IN  IF d >= s.targetDescentDepth
        THEN [s EXCEPT !.clawDepth = s.targetDescentDepth, !.state = "LIFTING"]
        ELSE [s EXCEPT !.clawDepth = d]

Descending(s, h) ==
    LET d == s.clawDepth + DepthRate
    IN  IF d >= s.targetDescentDepth
        THEN [s EXCEPT !.clawDepth = s.targetDescentDepth, !.state = "CLOSING"]
        ELSE [s EXCEPT !.clawDepth = d]

Closing(s, h, dist) ==
    LET a == s.clawAngle + AngleRate
    IN  IF a >= 1000
        THEN [attemptGrab([s EXCEPT !.clawAngle = 1000], dist)
                EXCEPT !.state = "LIFTING"]
        ELSE [s EXCEPT !.clawAngle = a]

(* Mutant: the slip forgets World.remove; the constraint stays in the world. *)
Slip_LeavesConstraint(s) ==
    [s EXCEPT !.toyConstraint = NoConstraint,
              !.attachedToy = NULL,
              !.isGripUnstable = FALSE]

(* Mutant: the slip forgets attachedToy; the claw still refers to the toy. *)
Slip_KeepsToy(s) ==
    [s EXCEPT !.worldConstraints = IF s.toyConstraint # NoConstraint THEN @ - 1 ELSE @,
              !.toyConstraint = NoConstraint,
              !.isGripUnstable = FALSE]

Slip(s) ==
    [s EXCEPT !.worldConstraints = IF s.toyConstraint # NoConstraint THEN @ - 1 ELSE @,
              !.toyConstraint = NoConstraint,
              !.attachedToy = NULL,
              !.isGripUnstable = FALSE]

(* Mutant: a failed grab gives the credit back. *)
failedGrab_Refunds(s) ==
    [s EXCEPT !.clawAngle = 0, !.state = "READY", !.isGripUnstable = FALSE,
              !.creditsRef = @ + 1]

(* Mutant: the claw is left closed. *)
failedGrab_StaysClosed(s) ==
    [s EXCEPT !.state = "READY", !.isGripUnstable = FALSE]

(* FAILED GRAB - open claw and return to READY *)
failedGrab(s) ==
    [s EXCEPT !.clawAngle = 0, !.state = "READY", !.isGripUnstable = FALSE]

(* Mutant: the lift ends without setting clawDepth to 0. *)
Lifting_NoClamp(s, h, rnd) ==
    LET s1 == [s EXCEPT !.clawDepth = @ - DepthRate]
        s2 == IF s1.attachedToy # NULL /\ rnd < SlipChance(s1) THEN Slip(s1) ELSE s1
        s3 == IF s2.clawDepth <= 0
              THEN IF s2.attachedToy # NULL
                   THEN [s2 EXCEPT !.state = "CARRYING"]
                   ELSE failedGrab(s2)
              ELSE s2
    IN  updateConstraint(s3)

(* Mutant: an OPEN hand lowers the claw again instead of retracting it. *)
Lifting_LowersOnOpen(s, h, rnd) ==
    LET s1 == [s EXCEPT !.clawDepth =
                 IF h.isPresent /\ h.gesture = "OPEN"
                 THEN Min(@ + DepthRate, 1000) ELSE @ - DepthRate]
        s2 == IF s1.attachedToy # NULL /\ rnd < SlipChance(s1) THEN Slip(s1) ELSE s1
        s3 == IF s2.clawDepth <= 0
              THEN IF s2.attachedToy # NULL
                   THEN [s2 EXCEPT !.clawDepth = 0, !.state = "CARRYING"]
                   ELSE failedGrab([s2 EXCEPT !.clawDepth = 0])
              ELSE s2
    IN  updateConstraint(s3)

Lifting(s, h, rnd) ==
    LET s1 == [s EXCEPT !.clawDepth = @ - DepthRate]
        s2 == IF s1.attachedToy # NULL /\ rnd < SlipChance(s1) THEN Slip(s1) ELSE s1
        s3 == IF s2.clawDepth <= 0
              THEN IF s2.attachedToy # NULL
                   THEN [s2 EXCEPT !.clawDepth = 0, !.state = "CARRYING"]
                   ELSE failedGrab([s2 EXCEPT !.clawDepth = 0])
              ELSE s2
    IN  updateConstraint(s3)

(* Mutant: a frame that is not OPEN leaves the count as it is. *)
countOpen_NoReset(n, h) ==
    IF h.isPresent /\ h.gesture = "OPEN" THEN n + 1 ELSE n

(* openGestureFrames after one CARRYING frame *)
countOpen(n, h) ==
    IF h.isPresent /\ h.gesture = "OPEN" THEN n + 1 ELSE 0

Carrying(s, h) ==
    LET s1 == updateConstraint(MoveClaw(s, h))
    IN  IF s1.attachedToy = NULL \/ s1.toyConstraint = NoConstraint
        THEN [s1 EXCEPT !.state = "READY", !.clawAngle = 0, !.openGestureFrames = 0]
        ELSE LET n == countOpen(s1.openGestureFrames, h)
             IN  IF n >= OPEN_FRAMES_REQUIRED
                 THEN [s1 EXCEPT !.state = "DROPPING", !.openGestureFrames = 0]
                 ELSE [s1 EXCEPT !.openGestureFrames = n]

(* Mutant: the claw opens at once. *)
openClaw_AtOnce(a) == 0

(* if (clawAngle > 0) { clawAngle -= 0.025; if (clawAngle < 0) clawAngle = 0 } *)
openClaw(a) == IF a > 0 THEN Max(0, a - AngleRate) ELSE a

(* Mutant: the game starts over with a new countdown after a drop. *)
dropDone_CountsDownAgain(s) ==
    [s EXCEPT !.state = "COUNTDOWN", !.isGripUnstable = FALSE,
              !.countdownTimer = CountdownStart]

(* Mutant: the grip stays marked unstable after the drop. *)
dropDone_KeepsUnstable(s) == [s EXCEPT !.state = "READY"]

(* Mutant: a finished drop gives the credit back. *)
dropDone_Refunds(s) ==
    [s EXCEPT !.state = "READY", !.isGripUnstable = FALSE, !.creditsRef = @ + 1]

(* Return to READY once the claw is fully open and no toy is tracked *)
dropDone(s) == [s EXCEPT !.state = "READY", !.isGripUnstable = FALSE]

(* Mutant: a toy released outside the exit zone stays referenced. *)
release_KeepsIneligible(s) ==
    [s EXCEPT !.worldConstraints = @ - 1,
              !.toyConstraint = NoConstraint,
              !.droppingToy =
                  IF s.attachedToy # NULL /\ isInExitZone(s.clawX)
                  THEN s.attachedToy ELSE @,
              !.attachedToy = IF isInExitZone(s.clawX) THEN NULL ELSE @]

(* Mutant: the release removes the constraint and forgets attachedToy. *)
release_LeavesToy(s) ==
    [s EXCEPT !.worldConstraints = @ - 1,
              !.toyConstraint = NoConstraint,
              !.droppingToy =
                  IF s.attachedToy # NULL /\ isInExitZone(s.clawX)
                  THEN s.attachedToy ELSE @]

(* Release constraint once: the body of if (toyConstraint.current) *)
release(s) ==
    [s EXCEPT !.worldConstraints = @ - 1,
              !.toyConstraint = NoConstraint,
              !.droppingToy =
                  IF s.attachedToy # NULL /\ isInExitZone(s.clawX)
                  THEN s.attachedToy ELSE @,
              !.attachedToy = NULL]

(* y is position.y of the released toy as the physics step left it *)
Dropping(s, h, y) ==
    LET s1 == [s EXCEPT !.openGestureFrames = 0, !.clawAngle = openClaw(@)]
        s2 == IF s1.toyConstraint # NoConstraint THEN release(s1) ELSE s1
        s3 == IF s2.droppingToy # NULL /\ y > Height + FallMargin
              THEN [s2 EXCEPT !.toys = removeBody(@, s2.droppingToy),
                              !.droppingToy = NULL,
                              !.score = @ + 1]
              ELSE s2
    IN  IF s3.clawAngle = 0 /\ s3.droppingToy = NULL
        THEN dropDone(s3)
        ELSE s3

---------------------------------------------------------------------------
(* PhysicsWorld.  Bodies live in pw.bodies and are referred to by their    *)
(* index there (0 is null), so that walls and engine.world share them.     *)
(* Horizontal lengths are held in eighths of a pixel and vertical ones in  *)
(* halves, which keeps width * 0.75 / 2 and height / 2 whole.              *)

(* Matter.Bodies.rectangle(x, y, width, height, { isStatic: true, label }) *)
rectangle(x, y, w, h, label) ==
    [label |-> label, isStatic |-> TRUE, x |-> x, y |-> y, w |-> w, h |-> h]

(* The four boundary bodies as init(width, height) creates them *)
boundary(width, height) ==
    LET floorThickness == 100
        floorY == 2 * (height - 30) + floorThickness
        pitWidth == 6 * width
        separatorHeight == 220
    IN  [ground |-> rectangle(pitWidth \div 2, floorY, pitWidth,
                              2 * floorThickness, "Ground"),
         left |-> rectangle(8 * (0 - 50), height, 8 * 100, 2 * (height * 2), "Wall"),
         right |-> rectangle(8 * (width + 50), height, 8 * 100, 2 * (height * 2), "Wall"),
         separator |-> rectangle(pitWidth, 2 * (height - 30) - separatorHeight,
                                 8 * 20, 2 * separatorHeight, "Separator")]

NoCall == [op |-> "none", width |-> 0, height |-> 0]

(* new PhysicsWorld({}) *)
NewWorld ==
    [width |-> 0, height |-> 0,
     bodies |-> <<>>,
     walls |-> [ground |-> NULL, left |-> NULL, right |-> NULL, separator |-> NULL],
     world |-> <<>>,
     call |-> NoCall]

(* Mutant: init without its guard builds the boundary again. *)
init_NoGuard(p, width, height) ==
    LET made == boundary(width, height)
        n == Len(p.bodies)
    IN  [p EXCEPT !.width = width,
                  !.height = height,
                  !.bodies = @ \o <<made.ground, made.left, made.right, made.separator>>,
                  !.walls = [ground |-> n + 1, left |-> n + 2, right |-> n + 3,
                             separator |-> n + 4],
                  !.world = @ \o <<n + 1, n + 2, n + 3, n + 4>>]

init(p, width, height) ==
    IF p.walls.ground # NULL THEN p
    ELSE LET made == boundary(width, height)
             n == Len(p.bodies)
         IN  [p EXCEPT !.width = width,
                       !.height = height,
                       !.bodies = @ \o <<made.ground, made.left, made.right,
                                         made.separator>>,
                       !.walls = [ground |-> n + 1, left |-> n + 2, right |-> n + 3,
                                  separator |-> n + 4],
                       !.world = @ \o <<n + 1, n + 2, n + 3, n + 4>>]

(* Matter.Body.setPosition(body, { x, y }) on the body at index b *)
setPosition(bodies, b, x, y) == [bodies EXCEPT ![b].x = x, ![b].y = y]

resize(p, width, height) ==
    LET p1 == [p EXCEPT !.width = width, !.height = height]
    IN  IF p1.walls.ground # NULL
        THEN LET floorThickness == 100
                 floorY == 2 * (height - 30) + floorThickness
                 pitWidth == 6 * width
                 separatorHeight == 220
                 b1 == setPosition(p1.bodies, p1.walls.ground, pitWidth \div 2, floorY)
                 b2 == setPosition(b1, p1.walls.separator, pitWidth,
                                   2 * (height - 30) - separatorHeight)
                 b3 == setPosition(b2, p1.walls.right, 8 * (width + 50), height)
             IN  [p1 EXCEPT !.bodies = b3]
        ELSE p1

(* The sizes the container can have *)
Widths == {640, 800, 1024}
Heights == {480, 630, 768}

(* The container of the game: a unit of the hub X axis is 50 px *)
CanvasWidth == 50 * Width

(* physics.current once the component has called init *)
GameWorld == init(NewWorld, CanvasWidth, Height)

WorldInit ==
    /\ \E width \in Widths, height \in Heights :
          pw' = [init(pw, width, height)
                   EXCEPT !.call = [op |-> "init", width |-> width, height |-> height]]
    /\ UNCHANGED <<refs, frame, tracker>>

WorldResize ==
    /\ \E width \in Widths, height \in Heights :
          pw' = [resize(pw, width, height)
                   EXCEPT !.call = [op |-> "resize", width |-> width, height |-> height]]
    /\ UNCHANGED <<refs, frame, tracker>>

NextWorld ==
    \/ WorldInit
    \/ WorldResize

---------------------------------------------------------------------------
(* HandTrackerService: the gesture of the sample process returns.  The     *)
(* smoothing of the position (xBuffer, yBuffer) is left out.               *)

HISTORY_SIZE == 5

(* What the classification of the landmarks can give: let rawGesture *)
RawGesture == {"POINT", "PINCH", "OPEN"}

(* new HandTrackerService(): no gesture seen, lastResult absent with NONE; *)
(* given and returned keep the latest call of getStableGesture             *)
NewTracker ==
    [gestureHistory |-> <<>>,
     lastResult |-> [gesture |-> "NONE", isPresent |-> FALSE],
     given |-> "NONE",
     returned |-> "NONE"]

(* counts[g] || 0 *)
counts(history, g) == Cardinality({i \in DOMAIN history : history[i] = g})

(* Mutant: the threshold is rounded down, Math.floor(HISTORY_SIZE * 0.85). *)
getStableGesture_RoundsDown(history, current) ==
    LET pushed == Append(history, current)
        gestureHistory == IF Len(pushed) > HISTORY_SIZE THEN Tail(pushed) ELSE pushed
        threshold == (HISTORY_SIZE * 85) \div 100
    IN  [gestureHistory |-> gestureHistory,
         result |-> IF counts(gestureHistory, "PINCH") >= threshold THEN "PINCH"
                    ELSE IF counts(gestureHistory, "OPEN") >= threshold THEN "OPEN"
                    ELSE IF counts(gestureHistory, "POINT") >= threshold THEN "POINT"
                    ELSE gestureHistory[Len(gestureHistory)]]

(* getStableGesture(current) on the history given: the history it leaves   *)
(* and the gesture it returns; threshold is Math.ceil(HISTORY_SIZE * 0.85) *)
getStableGesture(history, current) ==
    LET pushed == Append(history, current)
        gestureHistory == IF Len(pushed) > HISTORY_SIZE THEN Tail(pushed) ELSE pushed
        threshold == (HISTORY_SIZE * 85 + 99) \div 100
    IN  [gestureHistory |-> gestureHistory,
         result |-> IF counts(gestureHistory, "PINCH") >= threshold THEN "PINCH"
                    ELSE IF counts(gestureHistory, "OPEN") >= threshold THEN "OPEN"
                    ELSE IF counts(gestureHistory, "POINT") >= threshold THEN "POINT"
                    ELSE gestureHistory[Len(gestureHistory)]]

(* What one call of process can meet: no landmarker or a detection error   *)
(* ("unavailable"), no hand in the picture ("none"), or a hand whose       *)
(* landmarks classify as a raw gesture.                                     *)
Detections == {"unavailable", "none"} \cup RawGesture

(* process(video, timestamp): the tracker it leaves; it returns lastResult *)
process(t, detected) ==
    IF detected = "unavailable" THEN t
    ELSE IF detected = "none"
    THEN [t EXCEPT !.lastResult.isPresent = FALSE]
    ELSE LET stable == getStableGesture(t.gestureHistory, detected)
         IN  [gestureHistory |-> stable.gestureHistory,
              lastResult |-> [gesture |-> stable.result, isPresent |-> TRUE],
              given |-> detected,
              returned |-> stable.result]

TrackerProcess ==
    /\ \E detected \in Detections : tracker' = process(tracker, detected)
    /\ UNCHANGED <<refs, frame, pw>>

---------------------------------------------------------------------------
(* The state machine *)

(* The refs as constructed, over a world holding the toys spawned *)
InitRefs(spawned, history) ==
    /\ state = "WAITING_FOR_TOYS"
    /\ clawX = Width \div 2
    /\ clawDepth = 0
    /\ clawAngle = 0
    /\ attachedToy = NULL
    /\ toyConstraint = NoConstraint
    /\ countdownTimer = CountdownStart
    /\ isGripUnstable = FALSE
    /\ droppingToy = NULL
    /\ targetDescentDepth = 1000
    /\ creditsRef = StartCredits
    /\ toysSettleTimer = 0
    /\ lastGesture = "NONE"
    /\ hasTriggeredGrab = FALSE
    /\ openGestureFrames = 0
    /\ score = 0
    /\ countdownValue = 3
    /\ toys = spawned
    /\ worldConstraints = 0
    /\ obs = NoObs
    /\ found = NULL
    /\ waited = 0
    /\ prevState = "WAITING_FOR_TOYS"
    /\ pinchEdge = FALSE
    /\ hist = history

(* init: physics.init, then spawnToys *)
(* The services of the running game: the world after physics.init; the    *)
(* tracker is not stepped, the samples it returns are drawn by the ticks.  *)
InitServices == pw = GameWorld /\ tracker = NewTracker

Init == InitRefs(Toys, NoHist) /\ frame = NoFrame /\ InitServices

(* The samples gameLoop can hand to a tick.  When the run of gameLoop is    *)
(* stepped through it is the sample the run has read.  While the history   *)
(* is kept the hand stays over the centre, and a tick without a hand carries either    *)
(* the tracker's last gesture (HandTracker.process, "Decay presence") or   *)
(* the default sample of gameLoop.                                         *)
Samples ==
    IF frame.pc = "machine" THEN {frame.hand}
    ELSE IF hist.tracked
    THEN {h \in HandInput :
            h.x = 1 /\ (h.isPresent \/ h.gesture \in {hist.gesture, "NONE"})}
    ELSE HandInput

(* hist after a tick that began in the current state, was handed h and     *)
(* left the refs as r:                                                     *)
(*   hold     grabs triggered so far by the run of PINCH samples that h    *)
(*            belongs to (0 if h is not PINCH)                             *)
(*   openRun  length of the run of present OPEN samples handed to CARRYING *)
(*            ticks that ends with this tick                               *)
(*   carried  CARRYING ticks since CARRYING was entered, counted up to     *)
(*            OPEN_FRAMES_REQUIRED                                         *)
Track(h, r) ==
    IF ~hist.tracked THEN hist
    ELSE [tracked |-> TRUE,
          gesture |-> h.gesture,
          isPresent |-> h.isPresent,
          hold |-> IF h.gesture = "PINCH"
                   THEN (IF hist.gesture = "PINCH" THEN hist.hold ELSE 0)
                        + (IF state = "READY" /\ r.state = "DESCENDING" THEN 1 ELSE 0)
                   ELSE 0,
          openRun |-> IF state = "CARRYING" /\ h.isPresent /\ h.gesture = "OPEN"
                      THEN Min(hist.openRun + 1, OPEN_FRAMES_REQUIRED + 1)
                      ELSE 0,
          carried |-> IF state = "CARRYING"
                      THEN Min(hist.carried + 1, OPEN_FRAMES_REQUIRED)
                      ELSE 0]

(* Mutant: the physics step is moved behind the state machine. *)
nextStep_PhysicsLast(step) ==
    CASE step = "start" -> "hand"
      [] step = "hand" -> "machine"
      [] step = "machine" -> "physics"
      [] step = "physics" -> "render"
      [] step = "render" -> "start"

(* gameLoop: the step that follows step in one run; after the render the   *)
(* run asks for the next animation frame, whose run begins at "start".     *)
nextStep(step) ==
    CASE step = "start" -> "physics"
      [] step = "physics" -> "hand"
      [] step = "hand" -> "machine"
      [] step = "machine" -> "render"
      [] step = "render" -> "start"

(* frame once the run has taken step and holds the sample h *)
stepDone(step, h) ==
    [pc |-> nextStep(step), hand |-> h, done |-> Append(frame.done, step)]

(* The refs after a run of updateStateMachine that was handed h and left   *)
(* them as r; seen is what the run read from the physics world and from    *)
(* Math.random, edge what isPinchTriggered returned.                       *)
Apply(r, h, seen, edge) ==
    /\ state' = r.state
    /\ clawX' = r.clawX
    /\ clawDepth' = r.clawDepth
    /\ clawAngle' = r.clawAngle
    /\ attachedToy' = r.attachedToy
    /\ toyConstraint' = r.toyConstraint
    /\ countdownTimer' = r.countdownTimer
    /\ isGripUnstable' = r.isGripUnstable
    /\ droppingToy' = r.droppingToy
    /\ targetDescentDepth' = r.targetDescentDepth
    /\ creditsRef' = r.creditsRef
    /\ toysSettleTimer' = r.toysSettleTimer
    /\ lastGesture' = r.lastGesture
    /\ hasTriggeredGrab' = r.hasTriggeredGrab
    /\ openGestureFrames' = r.openGestureFrames
    /\ score' = r.score
    /\ countdownValue' = r.countdownValue
    /\ toys' = r.toys
    /\ worldConstraints' = r.worldConstraints
    /\ obs' = seen
    /\ found' = IF state = "CLOSING" /\ r.state = "LIFTING"
                THEN findToyAt(allBodies(toys), seen.dist, GrabRadius)
                ELSE IF r.state = "DESCENDING" THEN NULL ELSE found
    /\ waited' = IF state = "WAITING_FOR_TOYS" THEN waited + 1 ELSE 0
    /\ prevState' = state
    /\ pinchEdge' = edge
    /\ hist' = Track(h, r)
    /\ frame.pc \in {"tick", "machine"}
    /\ UNCHANGED services
    /\ frame' = IF frame.pc = "tick" THEN frame ELSE stepDone("machine", DefaultHand)

TickWaiting ==
    /\ state = "WAITING_FOR_TOYS"
    /\ \E h \in Samples, speed \in [toys -> Speeds] :
          Apply(Waiting(Cur, h, speed), h, [NoObs EXCEPT !.speed = speed], FALSE)

TickCountdown ==
    /\ state = "COUNTDOWN"
    /\ \E h \in Samples : Apply(Countdown(Cur, h), h, NoObs, FALSE)

(* What Matter.Query.ray can return: up to MaxHits bodies, in world order  *)
(* (any order), no more toys among them than the world holds.              *)
RayHits ==
    LET Seqs == UNION {[1..n -> RayToys \cup RayStatics] : n \in 0..MaxHits}
    IN  {hits \in Seqs :
           Cardinality({i \in DOMAIN hits : hits[i].label = "Toy"})
              <= Cardinality(toys)}

(* The ray is cast only by a tick that triggers a grab.                     *)
TickReady ==
    /\ state = "READY"
    /\ \E h \in Samples :
          \E hits \in (IF Ready(Cur, h, NoHit).state = "DESCENDING"
                       THEN RayHits ELSE {<<>>}) :
             Apply(Ready(Cur, h, castRay(hits)), h,
                   [NoObs EXCEPT !.ray = castRay(hits), !.hits = hits],
                   isPinchTriggered(Cur, h))

TickDescending ==
    /\ state = "DESCENDING"
    /\ \E h \in Samples : Apply(Descending(Cur, h), h, NoObs, FALSE)

(* findToyAt is called only by the tick on which the claw is fully closed.  *)
TickClosing ==
    /\ state = "CLOSING"
    /\ \E h \in Samples :
          IF clawAngle + AngleRate >= 1000
          THEN \E dist \in Dists(toys) :
                  Apply(Closing(Cur, h, dist), h, [NoObs EXCEPT !.dist = dist], FALSE)
          ELSE Apply(Closing(Cur, h, <<>>), h, NoObs, FALSE)

(* Math.random() is drawn only while a toy is attached; the draw is kept   *)
(* in obs while the history is kept.                                       *)
TickLifting ==
    /\ state = "LIFTING"
    /\ \E h \in Samples :
          \E rnd \in (IF attachedToy # NULL THEN RandomDraws ELSE {5000}) :
             Apply(Lifting(Cur, h, rnd), h,
                   IF hist.tracked /\ attachedToy # NULL
                   THEN [NoObs EXCEPT !.rnd = rnd] ELSE NoObs,
                   FALSE)

TickCarrying ==
    /\ state = "CARRYING"
    /\ \E h \in Samples : Apply(Carrying(Cur, h), h, NoObs, FALSE)

(* On the tick of the release the toy still hangs at the claw tip; from the *)
(* next tick on the released toy is wherever the physics step has put it.   *)
TickDropping ==
    /\ state = "DROPPING"
    /\ \E h \in Samples :
          \E y \in (IF toyConstraint # NoConstraint
                    THEN {CLAW_TOP_HEIGHT + TipOffset} ELSE DropYs) :
             Apply(Dropping(Cur, h, y), h, [NoObs EXCEPT !.y = y], FALSE)

(* updateStateMachine: the switch on state.current, handed the sample h   *)
(* and reading o from the physics world and from Math.random               *)
Step(s, h, o) ==
    CASE s.state = "WAITING_FOR_TOYS" -> Waiting(s, h, o.speed)
      [] s.state = "COUNTDOWN" -> Countdown(s, h)
      [] s.state = "READY" -> Ready(s, h, o.ray)
      [] s.state = "DESCENDING" -> Descending(s, h)
      [] s.state = "CLOSING" -> Closing(s, h, o.dist)
      [] s.state = "LIFTING" -> Lifting(s, h, o.rnd)
      [] s.state = "CARRYING" -> Carrying(s, h)
      [] s.state = "DROPPING" -> Dropping(s, h, o.y)

(* What the physics world and Math.random can hand to a tick that begins   *)
(* in the current state: the inputs the Tick actions draw.                 *)
Reads ==
    CASE state = "WAITING_FOR_TOYS" ->
            {[NoObs EXCEPT !.speed = speed] : speed \in [toys -> Speeds]}
      [] state = "READY" ->
            {[NoObs EXCEPT !.ray = castRay(hits), !.hits = hits] : hits \in RayHits}
      [] state = "CLOSING" ->
            IF clawAngle + AngleRate >= 1000
            THEN {[NoObs EXCEPT !.dist = dist] : dist \in Dists(toys)}
            ELSE {NoObs}
      [] state = "LIFTING" ->
            {[NoObs EXCEPT !.rnd = rnd] :
                rnd \in (IF attachedToy # NULL THEN RandomDraws ELSE {NoDraw})}
      [] state = "DROPPING" ->
            {[NoObs EXCEPT !.y = y] :
                y \in (IF toyConstraint # NoConstraint
                       THEN {CLAW_TOP_HEIGHT + TipOffset} ELSE DropYs)}
      [] OTHER -> {NoObs}

Next ==
    \/ TickWaiting
    \/ TickCountdown
    \/ TickReady
    \/ TickDescending
    \/ TickClosing
    \/ TickLifting
    \/ TickCarrying
    \/ TickDropping

Spec == Init /\ [][Next]_vars

(* The machine while ticks keep running, over a world of one spawned toy   *)
(* (spawnToys(1)): gameLoop ends by asking for the next animation frame,   *)
(* so a tick that can be taken is taken.                                   *)
InitLive == InitRefs({1}, NoHist) /\ frame = NoFrame /\ InitServices

SpecLive == InitLive /\ [][Next]_vars /\ WF_vars(Next)

(* gameLoop, one step at a time.  A run that finds no canvas or no 2D      *)
(* context returns at once and asks for no further frame.                  *)
LoopStart ==
    /\ frame.pc = "start"
    /\ \E mounted \in BOOLEAN :
          frame' = IF mounted
                   THEN [pc |-> nextStep("start"), hand |-> DefaultHand, done |-> <<>>]
                   ELSE [pc |-> "stopped", hand |-> DefaultHand, done |-> <<>>]
    /\ UNCHANGED <<refs, services>>

(* Matter.Engine.update(physics.current.engine, 1000 / 60) *)
LoopPhysics ==
    /\ frame.pc = "physics"
    /\ frame' = stepDone("physics", frame.hand)
    /\ UNCHANGED <<refs, services>>

(* The samples the run can read while the hand stays over the centre: the  *)
(* default sample, or what handTracker.process returns.                     *)
HandReads == {h \in HandInput : h.x = 1}

LoopHand ==
    /\ frame.pc = "hand"
    /\ \E h \in HandReads : frame' = stepDone("hand", h)
    /\ UNCHANGED <<refs, services>>

(* updateStateMachine(hand, width, height) *)
LoopMachine ==
    /\ frame.pc = "machine"
    /\ Next

(* "--- 2. RENDER ---", then requestAnimationFrame(gameLoop) *)
LoopRender ==
    /\ frame.pc = "render"
    /\ frame' = stepDone("render", frame.hand)
    /\ UNCHANGED <<refs, services>>

NextLoop ==
    \/ LoopStart
    \/ LoopPhysics
    \/ LoopHand
    \/ LoopMachine
    \/ LoopRender

(* The machine with each run of gameLoop stepped through, over a world of  *)
(* one spawned toy.                                                        *)
InitLoop == InitRefs({1}, NoHist) /\ frame = FirstFrame /\ InitServices

SpecLoop == InitLoop /\ [][NextLoop]_vars

(* The component as constructed, before its init effect has run: no toy   *)
(* spawned, the services new.                                              *)
InitNew ==
    /\ InitRefs({}, NoHist)
    /\ frame = NoFrame
    /\ pw = NewWorld
    /\ tracker = NewTracker

(* The PhysicsWorld under any calls of init and resize *)
SpecWorld == InitNew /\ [][NextWorld]_vars

(* The HandTrackerService under any calls of process *)
NextTracker == TrackerProcess

SpecTracker == InitNew /\ [][NextTracker]_vars

(* The same machine with the history of the hand samples and of the random *)
(* draws kept.                                                             *)
InitTrace == InitRefs(Toys, FirstHist) /\ frame = NoFrame /\ InitServices

SpecTrace == InitTrace /\ [][Next]_vars

(* The WAITING_FOR_TOYS and COUNTDOWN branches over any spawned population, *)
(* the empty one included (spawnToys(count) for any count).                 *)
InitSettle ==
    /\ \E spawned \in SUBSET Toys : InitRefs(spawned, NoHist)
    /\ frame = NoFrame
    /\ InitServices

NextSettle ==
    \/ TickWaiting
    \/ TickCountdown

SpecSettle == InitSettle /\ [][NextSettle]_vars

---------------------------------------------------------------------------
(* Properties *)

TypeOK ==
    /\ state \in GameState
    /\ clawX \in 0..Width
    /\ attachedToy \in Toys \cup {NULL}
    /\ droppingToy \in Toys \cup {NULL}
    /\ creditsRef \in 0..StartCredits
    /\ score \in 0..NumToys
    /\ toys \subseteq Toys
    /\ lastGesture \in GestureType
    /\ openGestureFrames \in 0..OPEN_FRAMES_REQUIRED

(* C1: a tick that begins in READY with no credit left ends in READY with  *)
(* no credit left, whatever the hand sample (a rising-edge PINCH of a      *)
(* present hand included).                                                 *)
C1_NoGrabWithoutCredit ==
    [][(state = "READY" /\ creditsRef = 0)
          => (state' = "READY" /\ creditsRef' = 0)]_vars

(* A present hand pinched on a rising edge in READY with no credit left.   *)
C1_Witness ==
    /\ state = "READY"
    /\ prevState = "READY"
    /\ creditsRef = 0
    /\ pinchEdge

(* C2: creditsRef goes down by exactly 1 on exactly the ticks that move    *)
(* READY to DESCENDING, and no other tick changes it.                      *)
C2_OneCreditPerGrab ==
    [][/\ (creditsRef' = creditsRef - 1) <=> (state = "READY" /\ state' = "DESCENDING")
       /\ creditsRef' \in {creditsRef, creditsRef - 1}]_vars

(* The second grab has just been triggered. *)
C2_Witness ==
    /\ state = "DESCENDING"
    /\ prevState = "READY"
    /\ creditsRef = StartCredits - 2

Edges ==
    { <<"WAITING_FOR_TOYS", "COUNTDOWN">>, <<"COUNTDOWN", "READY">>,
      <<"READY", "DESCENDING">>, <<"DESCENDING", "CLOSING">>,
      <<"CLOSING", "LIFTING">>, <<"LIFTING", "CARRYING">>,
      <<"LIFTING", "READY">>, <<"CARRYING", "DROPPING">>,
      <<"CARRYING", "READY">>, <<"DROPPING", "READY">> }

(* C3: the phase changes only along the listed edges, one edge per tick.   *)
C3_PhaseEdges ==
    [][state' # state => <<state, state'>> \in Edges]_vars

(* A whole cycle has been walked: a scored drop has returned to READY.     *)
C3_Witness ==
    /\ state = "READY"
    /\ prevState = "DROPPING"
    /\ score = 1

C4_State ==
    /\ score = Cardinality(Toys \ toys)
    /\ droppingToy # NULL => droppingToy \in toys
    /\ attachedToy # NULL => attachedToy \in toys

C4_Action ==
    /\ (state = "DROPPING" /\ droppingToy # NULL /\ obs'.y > Height + FallMargin)
          => /\ score' = score + 1
             /\ toys' = toys \ {droppingToy}
             /\ droppingToy' = NULL
    /\ score' # score
          => /\ state = "DROPPING"
             /\ droppingToy # NULL
             /\ obs'.y > Height + FallMargin
             /\ score' = score + 1
    /\ (droppingToy = NULL /\ droppingToy' # NULL)
          => /\ state = "DROPPING"
             /\ 4 * clawX >= 3 * Width
             /\ droppingToy' = attachedToy
    /\ toys' \subseteq toys

(* C4: a toy released with claw X >= 0.75 * width is tracked; on the       *)
(* DROPPING tick that sees it at y > height + 100 the score goes up by     *)
(* exactly 1 and the toy leaves the world; the score changes on no other   *)
(* tick, a toy never returns to the world, and the score is the number of  *)
(* toys that have left it, so no toy scores twice and findToyAt (which     *)
(* returns only toys of the world) never returns a scored toy.             *)
C4_ScoresOnce == [](C4_State) /\ [][C4_Action]_vars

(* The tracked toy has just been seen below the screen and has scored. *)
C4_Witness ==
    /\ prevState = "DROPPING"
    /\ obs.y > Height + FallMargin
    /\ score = 1
    /\ Cardinality(toys) = NumToys - 1
    /\ droppingToy = NULL

C5_Action ==
    /\ score' # score => state = "DROPPING"
    /\ (state = "DROPPING" /\ toyConstraint # NoConstraint /\ 4 * clawX < 3 * Width)
          => (droppingToy' = NULL /\ score' = score)
    /\ (state = "DROPPING" /\ toyConstraint = NoConstraint /\ droppingToy = NULL)
          => (droppingToy' = NULL /\ score' = score)
    /\ state = "DROPPING" => clawX' = clawX

(* C5: a release in DROPPING with claw X < 0.75 * width tracks no toy, and *)
(* while no toy is tracked the score does not change, wherever the         *)
(* released toy goes, until READY; outside DROPPING no toy is tracked and  *)
(* the score never changes.                                                *)
C5_NoScoreLeftOfExit ==
    [](state # "DROPPING" => droppingToy = NULL) /\ [][C5_Action]_vars

(* A toy released left of the exit zone was seen below the screen on the   *)
(* last DROPPING tick, and the score is still 0 in READY.                  *)
C5_Witness ==
    /\ state = "READY"
    /\ prevState = "DROPPING"
    /\ found # NULL
    /\ 4 * clawX < 3 * Width
    /\ obs.y > Height + FallMargin
    /\ score = 0

C6_Action ==
    /\ (state = "CLOSING" /\ state' = "LIFTING" /\ found' = NULL)
          => attachedToy' = NULL
    /\ (state = "LIFTING" /\ found = NULL)
          => /\ attachedToy = NULL
             /\ state' # "LIFTING" => (state' = "READY" /\ clawAngle' = 0)
    /\ (state \in {"DESCENDING", "CLOSING", "LIFTING"}
          \/ (state = "READY" /\ state' = "DESCENDING"))
          => score' = score

(* C6: when findToyAt returns null to attemptGrab, nothing is attached, the *)
(* tick that completes LIFTING leaves READY with clawAngle = 0, and no tick *)
(* from the trigger to that one changes the score.                          *)
C6_MissEndsReadyOpen == [][C6_Action]_vars

(* A miss (toys in the world, none within the radius) has finished LIFTING. *)
C6_Witness ==
    /\ state = "READY"
    /\ prevState = "LIFTING"
    /\ found = NULL
    /\ toys # {}
    /\ clawAngle = 0
    /\ clawDepth = 0

(* C7: clawDepth and clawAngle are within [0, 1] at the end of every tick.  *)
C7_PoseInUnitRange ==
    /\ clawDepth >= 0 /\ clawDepth <= 1000
    /\ clawAngle >= 0 /\ clawAngle <= 1000

(* The claw is fully extended (the target was clamped to 1) and closed.     *)
C7_Witness ==
    /\ state = "LIFTING"
    /\ prevState = "CLOSING"
    /\ clawDepth = 1000
    /\ clawAngle = 1000

Abs(n) == IF n < 0 THEN -n ELSE n

(* Depth moves by at most the rate, down only in DESCENDING and not past    *)
(* targetDescentDepth, up only in LIFTING.                                  *)
DepthRateOK ==
    /\ Abs(clawDepth' - clawDepth) <= DepthRate
    /\ clawDepth' > clawDepth
          => (state = "DESCENDING" /\ clawDepth' <= targetDescentDepth)
    /\ clawDepth' < clawDepth => state = "LIFTING"

(* Angle closes only in CLOSING and opens only in DROPPING, by at most the  *)
(* rate.                                                                    *)
AngleRateOK ==
    /\ Abs(clawAngle' - clawAngle) <= AngleRate
    /\ clawAngle' > clawAngle => state = "CLOSING"
    /\ clawAngle' < clawAngle => state = "DROPPING"

(* C8 as claimed: on every tick, the tick on which a failed grab finishes   *)
(* LIFTING included, clawDepth moves by at most 0.012 and clawAngle by at   *)
(* most 0.025, each toward its target.                                      *)
C8_Claimed == [][DepthRateOK /\ AngleRateOK]_vars

(* C8 as amended: the same on every tick but the one on which a failed grab *)
(* finishes LIFTING, where clawDepth still obeys its rate and clawAngle     *)
(* goes from 1 to 0 at once.                                                *)
C8_RateLimited ==
    [][/\ DepthRateOK
       /\ IF state = "LIFTING" /\ state' = "READY"
          THEN clawAngle = 1000 /\ clawAngle' = 0
          ELSE AngleRateOK]_vars

(* The claw has opened by one step of the rate after a whole carry.         *)
C8_Witness ==
    /\ state = "DROPPING"
    /\ prevState = "DROPPING"
    /\ clawAngle = 1000 - 2 * AngleRate
    /\ clawDepth = 0

(* C9: WAITING_FOR_TOYS is left for COUNTDOWN no later than its 300th tick. *)
C9_SettleTimeout ==
    /\ [](state = "WAITING_FOR_TOYS" => waited < MAX_SETTLE_TIME)
    /\ [][(state = "WAITING_FOR_TOYS" /\ waited = MAX_SETTLE_TIME - 1)
             => state' = "COUNTDOWN"]_vars

(* The 300th tick moved to COUNTDOWN with a toy still at speed >= 2.0.      *)
C9_Witness ==
    /\ state = "COUNTDOWN"
    /\ prevState = "WAITING_FOR_TOYS"
    /\ waited = MAX_SETTLE_TIME
    /\ \E t \in toys : obs.speed[t] >= VelocityThreshold

(* Every toy of the world was seen at a speed below the threshold.          *)
AllSlow(seen) == \A t \in DOMAIN seen.speed : seen.speed[t] < VelocityThreshold

---------------------------------------------------------------------------
(* Properties stated over the history of the hand (SpecTrace) *)

(* C11: a continuous PINCH hold (a maximal run of ticks handed a PINCH     *)
(* sample) never starts a second grab, and it does start one: on every     *)
(* READY tick with a credit left that is handed a present PINCH, the hold  *)
(* the sample belongs to has started its grab by the end of the tick.      *)
C11_OneGrabPerHold ==
    /\ [](hist.hold <= 1)
    /\ [][(/\ state = "READY"
           /\ creditsRef > 0
           /\ hist'.isPresent
           /\ hist'.gesture = "PINCH") => hist'.hold = 1]_vars

(* The half of C11 that the code keeps: no hold starts a second grab. *)
C11_NoSecondGrab == hist.hold <= 1

(* C12: a tick that begins in READY with a credit left and is handed a     *)
(* present PINCH, the sample of the tick before not being PINCH, triggers  *)
(* a grab (the tick ends in DESCENDING); so also on the first READY tick   *)
(* after a grab cycle or after COUNTDOWN.                                  *)
C12_RisingEdgeTriggers ==
    [][(/\ state = "READY"
        /\ creditsRef > 0
        /\ hist'.isPresent
        /\ hist'.gesture = "PINCH"
        /\ hist.gesture # "PINCH") => state' = "DESCENDING"]_vars

(* The part of C12 that the code keeps: the rising edge triggers when the  *)
(* tick before was a READY or a COUNTDOWN tick.                            *)
C12_EdgeSeenByReady ==
    [][(/\ state = "READY"
        /\ prevState \in {"READY", "COUNTDOWN"}
        /\ creditsRef > 0
        /\ hist'.isPresent
        /\ hist'.gesture = "PINCH"
        /\ hist.gesture # "PINCH") => state' = "DESCENDING"]_vars

(* C13: CARRYING moves to DROPPING exactly on the tick that completes       *)
(* OPEN_FRAMES_REQUIRED consecutive CARRYING ticks handed a present OPEN;  *)
(* a CARRYING tick handed anything else leaves openGestureFrames at 0, and  *)
(* while CARRYING lasts openGestureFrames is the length of the run of      *)
(* present OPEN samples seen by CARRYING ticks alone, so that a release     *)
(* comes no sooner than the OPEN_FRAMES_REQUIRED-th tick of CARRYING.       *)
C13_ReleaseAfterOpenHeld ==
    /\ [][state = "CARRYING" =>
            /\ (state' = "DROPPING") <=> (hist'.openRun = OPEN_FRAMES_REQUIRED)
            /\ ~(hist'.isPresent /\ hist'.gesture = "OPEN") => openGestureFrames' = 0
            /\ state' = "CARRYING" => openGestureFrames' = hist'.openRun]_vars
    /\ []((state = "DROPPING" /\ prevState = "CARRYING")
            => hist.carried = OPEN_FRAMES_REQUIRED)

(* The toy has just been released by the tick that completed the run. *)
C13_Witness ==
    /\ state = "DROPPING"
    /\ prevState = "CARRYING"
    /\ hist.openRun = OPEN_FRAMES_REQUIRED
    /\ hist.carried = OPEN_FRAMES_REQUIRED

---------------------------------------------------------------------------
(* Properties of a grab attempt *)

(* C14: targetDescentDepth is written only by the tick that triggers a     *)
(* grab in READY: no DESCENDING, CLOSING, LIFTING, CARRYING or DROPPING     *)
(* tick (nor any other) changes it; and the tick that ends DESCENDING       *)
(* leaves clawDepth exactly at targetDescentDepth.                          *)
C14_TargetFixedAndReached ==
    [][/\ (targetDescentDepth' # targetDescentDepth)
            => (state = "READY" /\ state' = "DESCENDING")
       /\ (state = "DESCENDING" /\ state' = "CLOSING")
            => clawDepth' = targetDescentDepth]_vars

(* The descent has just ended at a target that is no multiple of the step,  *)
(* with toys in the world.                                                  *)
C14_Witness ==
    /\ state = "CLOSING"
    /\ prevState = "DESCENDING"
    /\ targetDescentDepth = 100
    /\ clawDepth = targetDescentDepth
    /\ toys # {}

(* C15: at the end of every tick the world holds at most one lift          *)
(* constraint, it is the one toyConstraint refers to, and it holds the one  *)
(* toy attachedToy refers to; the tick that runs attemptGrab (the one that  *)
(* ends CLOSING) begins with toyConstraint null and no constraint in the    *)
(* world.                                                                   *)
C15_OneConstraintOneToy ==
    /\ [](/\ worldConstraints <= 1
          /\ attachedToy \in Toys \cup {NULL}
          /\ (worldConstraints = 1) <=> (toyConstraint # NoConstraint)
          /\ (toyConstraint # NoConstraint) => (toyConstraint.bodyB = attachedToy))
    /\ [][(state = "CLOSING" /\ state' = "LIFTING")
             => (toyConstraint = NoConstraint /\ worldConstraints = 0)]_vars

(* A later grab has just attached a toy. *)
C15_Witness ==
    /\ state = "LIFTING"
    /\ prevState = "CLOSING"
    /\ worldConstraints = 1
    /\ attachedToy # NULL
    /\ creditsRef <= StartCredits - 2

(* C16: at the end of every tick that ends in READY nothing of an attempt   *)
(* is left: no attached toy, no constraint (none in the world either), the  *)
(* grip not marked unstable, no toy tracked on its way out.                 *)
C16_ReadyIsClean ==
    state = "READY" =>
        /\ attachedToy = NULL
        /\ toyConstraint = NoConstraint
        /\ worldConstraints = 0
        /\ isGripUnstable = FALSE
        /\ droppingToy = NULL

(* READY reached from DROPPING after a toy left the playfield. *)
C16_Witness ==
    /\ state = "READY"
    /\ prevState = "DROPPING"
    /\ score > 0
    /\ attachedToy = NULL

(* C17: at the end of every tick that ends in CARRYING a toy is attached    *)
(* and its constraint exists; the tick that ends LIFTING ends in CARRYING   *)
(* if a toy is attached at its end and in READY otherwise.                  *)
C17_CarryingHoldsToy ==
    /\ [](state = "CARRYING" =>
            (attachedToy # NULL /\ toyConstraint # NoConstraint))
    /\ [][(state = "LIFTING" /\ state' # "LIFTING")
             => IF attachedToy' # NULL
                THEN state' = "CARRYING" ELSE state' = "READY"]_vars

(* An unstable grip has survived the lift. *)
C17_Witness ==
    /\ state = "CARRYING"
    /\ prevState = "LIFTING"
    /\ isGripUnstable
    /\ toyConstraint.bodyB = attachedToy

(* C20: the toy reference is cleared only by a LIFTING tick (the slip) or   *)
(* by a DROPPING tick (the release); a slip takes the constraint with it;   *)
(* and from the slip on the lift goes on to READY and nowhere else, with    *)
(* score and credits as they were.                                          *)
C20_SlipEndsInReady ==
    [][/\ (attachedToy # NULL /\ attachedToy' = NULL)
            => state \in {"LIFTING", "DROPPING"}
       /\ (state = "LIFTING" /\ attachedToy # NULL /\ attachedToy' = NULL)
            => (toyConstraint' = NoConstraint /\ worldConstraints' = 0)
       /\ (state = "LIFTING" /\ found # NULL /\ attachedToy' = NULL)
            => /\ state' \in {"LIFTING", "READY"}
               /\ score' = score
               /\ creditsRef' = creditsRef]_vars

(* The lift of a grab that had attached a toy has ended in READY. *)
C20_Witness ==
    /\ state = "READY"
    /\ prevState = "LIFTING"
    /\ found # NULL
    /\ attachedToy = NULL
    /\ creditsRef = StartCredits - 1
    /\ score = 0

(* Depths to compare the depth of a lift with: every tenth of the travel *)
C18_Depths == {d \in 0..1000 : d % 100 = 0}

(* The slip probability as claimed, in ten-thousandths, at a depth in      *)
(* thousandths.                                                             *)
C18_ClaimedChance(unstable, depth) ==
    (IF unstable THEN 120 ELSE 35) * (IF 1000 - depth < 400 THEN 2 ELSE 1)

(* C18: on a LIFTING tick that begins with a toy attached the toy slips     *)
(* exactly when the draw is below 0.0035 (stable grip) or 0.012 (unstable   *)
(* grip), doubled exactly when 1 - clawDepth < 0.4 for the clawDepth the    *)
(* tick has just stepped to; so at one depth the unstable grip slips on     *)
(* every draw the stable grip slips on and on more, and so does the early   *)
(* lift against the late one at one stability.                              *)
C18_SlipChance ==
    /\ [][(state = "LIFTING" /\ attachedToy # NULL) =>
            ((attachedToy' = NULL) <=>
                (obs'.rnd < C18_ClaimedChance(isGripUnstable, clawDepth - DepthRate)))]_vars
    /\ [](state = "LIFTING" =>
            /\ SlipChance([Cur EXCEPT !.isGripUnstable = TRUE])
                 > SlipChance([Cur EXCEPT !.isGripUnstable = FALSE])
            /\ \A late \in C18_Depths, unstable \in BOOLEAN :
                 (1000 - clawDepth < 400 /\ ~(1000 - late < 400)) =>
                    SlipChance([Cur EXCEPT !.isGripUnstable = unstable])
                      > SlipChance([Cur EXCEPT !.isGripUnstable = unstable,
                                               !.clawDepth = late]))

(* A stable grip slipped early in the lift on a draw that the undoubled     *)
(* chance would have let pass.                                              *)
C18_Witness ==
    /\ state = "LIFTING"
    /\ prevState = "LIFTING"
    /\ found # NULL
    /\ attachedToy = NULL
    /\ obs.rnd = 50
    /\ 1000 - clawDepth < 400

(* C19: for every grab that attaches a toy the early-lift penalty covers    *)
(* the first 40% of that lift: a LIFTING tick that begins with a toy        *)
(* attached and checks the slip before 40% of the travel from               *)
(* targetDescentDepth back to 0 is done (the first LIFTING tick after the   *)
(* attachment included) uses the doubled slip probability.                  *)
C19_PenaltyCoversEarlyLift ==
    (/\ state = "LIFTING"
     /\ attachedToy # NULL
     /\ 10 * (targetDescentDepth - (clawDepth - DepthRate)) < 4 * targetDescentDepth)
       => SlipChance([Cur EXCEPT !.clawDepth = @ - DepthRate])
            = 2 * (IF isGripUnstable THEN UnstableSlip ELSE StableSlip)

(* The part of C19 that the code keeps: the penalty is in force on the      *)
(* first LIFTING tick of a lift that starts from full depth.                *)
C19_PenaltyFromFullDepth ==
    (/\ state = "LIFTING"
     /\ prevState = "CLOSING"
     /\ attachedToy # NULL
     /\ targetDescentDepth = 1000)
       => SlipChance([Cur EXCEPT !.clawDepth = @ - DepthRate])
            = 2 * (IF isGripUnstable THEN UnstableSlip ELSE StableSlip)

---------------------------------------------------------------------------
(* Properties of the hand input *)

(* Every tick of the machine is Step on the current refs, for some sample   *)
(* and some read of Reads.                                                  *)
TickIsStep ==
    [][\E h \in HandInput, o \in Reads : Cur' = Step(Cur, h, o)]_vars

Automated ==
    {"WAITING_FOR_TOYS", "COUNTDOWN", "DESCENDING", "CLOSING", "LIFTING",
     "DROPPING"}

(* What C21 compares after the tick *)
Outcome(r) == <<r.state, r.clawX, r.clawDepth, r.clawAngle, r.creditsRef, r.score>>

(* C21: while the phase is WAITING_FOR_TOYS, COUNTDOWN, DESCENDING,         *)
(* CLOSING, LIFTING or DROPPING, two ticks from the same state that read    *)
(* the same from the physics world and from Math.random end with the same   *)
(* phase, hub X, clawDepth, clawAngle, credits and score, whatever hand     *)
(* samples they are handed (every sample gives what the default sample of   *)
(* gameLoop gives, hence any two give the same).                            *)
C21_HandIgnored ==
    state \in Automated =>
        \A o \in Reads :
            LET default == Outcome(Step(Cur, DefaultHand, o))
            IN  \A h \in HandInput : Outcome(Step(Cur, h, o)) = default

(* A lift is under way with the hub away from the centre, where a present   *)
(* hand held over the centre would pull the hub if READY were the phase.    *)
C21_Witness ==
    /\ state = "LIFTING"
    /\ prevState = "LIFTING"
    /\ attachedToy # NULL
    /\ MoveClaw(Cur, [x |-> 1, gesture |-> "OPEN", isPresent |-> TRUE]).clawX # clawX

(* The samples of a tick without a hand *)
Absent == {h \in HandInput : ~h.isPresent}

(* C23 as claimed: a tick handed a sample with isPresent = false never      *)
(* starts a grab from READY, never moves CARRYING to DROPPING, leaves the   *)
(* OPEN counter of CARRYING at 0, and leaves hub X, credits and score       *)
(* unchanged, in every phase.                                               *)
C23_Claimed ==
    \A o \in Reads : \A h \in Absent :
        LET r == Step(Cur, h, o)
        IN  /\ state = "READY" => r.state = "READY"
            /\ state = "CARRYING" => (r.state # "DROPPING" /\ r.openGestureFrames = 0)
            /\ r.clawX = clawX
            /\ r.creditsRef = creditsRef
            /\ r.score = score

(* C23: a tick handed a sample with isPresent = false never starts a grab   *)
(* from READY, never moves CARRYING to DROPPING, leaves the OPEN counter    *)
(* of CARRYING at 0, and leaves hub X and credits unchanged in every        *)
(* phase; it leaves score unchanged in every phase but DROPPING, where the  *)
(* poll of the released toy scores whatever the hand.                       *)
C23_AbsentIsNoCommand ==
    \A o \in Reads : \A h \in Absent :
        LET r == Step(Cur, h, o)
        IN  /\ state = "READY" => r.state = "READY"
            /\ state = "CARRYING" => (r.state # "DROPPING" /\ r.openGestureFrames = 0)
            /\ r.clawX = clawX
            /\ r.creditsRef = creditsRef
            /\ state # "DROPPING" => r.score = score
            /\ state = "DROPPING" => r.score = Step(Cur, DefaultHand, o).score

(* CARRYING one OPEN frame short of the release, the hub off the centre: a  *)
(* present OPEN releases and a present hand moves the hub, an absent OPEN   *)
(* does neither.                                                            *)
C23_Witness ==
    /\ state = "CARRYING"
    /\ openGestureFrames = OPEN_FRAMES_REQUIRED - 1
    /\ clawX # Width \div 2
    /\ Step(Cur, [x |-> 1, gesture |-> "OPEN", isPresent |-> TRUE], NoObs).state = "DROPPING"
    /\ Step(Cur, [x |-> 1, gesture |-> "OPEN", isPresent |-> FALSE], NoObs).state = "CARRYING"

---------------------------------------------------------------------------
(* Properties of a drop *)

(* C24: starting with 5 credits, the first grab leaves creditsRef at 4 on   *)
(* its trigger tick and on every tick of the sequence after it; and when    *)
(* that grab attached a toy, kept it through the lift and released it with  *)
(* hub X >= 0.75 * width, the sequence is back in READY only after the toy  *)
(* fell below height + 100, with score = 1.                                 *)
C24_FirstGrabScores ==
    /\ [][(state = "READY" /\ state' = "DESCENDING" /\ creditsRef = 5)
             => creditsRef' = 4]_vars
    /\ [][(creditsRef = 4 /\ state \notin {"READY"}) => creditsRef' = 4]_vars
    /\ []((/\ state = "READY"
           /\ prevState = "DROPPING"
           /\ creditsRef = 4
           /\ isInExitZone(clawX))
            => (score = 1 /\ Cardinality(toys) = NumToys - 1))

(* The first grab has scored and the machine is back in READY. *)
C24_Witness ==
    /\ state = "READY"
    /\ prevState = "DROPPING"
    /\ creditsRef = 4
    /\ score = 1
    /\ isInExitZone(clawX)

(* C27: the first tick of a DROPPING phase removes the lift constraint      *)
(* from the world, clears attachedToy whether the drop is eligible or not,  *)
(* and tracks the toy exactly if hub X >= 0.75 * width; no later tick of    *)
(* the phase finds a constraint to remove, and none starts tracking a toy.  *)
C27_ReleasedOnce ==
    [][state = "DROPPING" =>
         /\ prevState = "CARRYING" =>
               /\ toyConstraint # NoConstraint
               /\ toyConstraint' = NoConstraint
               /\ worldConstraints' = worldConstraints - 1
               /\ attachedToy # NULL
               /\ attachedToy' = NULL
               /\ droppingToy' = IF isInExitZone(clawX) THEN attachedToy ELSE NULL
         /\ prevState = "DROPPING" =>
               /\ toyConstraint = NoConstraint
               /\ toyConstraint' = NoConstraint
               /\ worldConstraints' = worldConstraints
               /\ attachedToy' = NULL
               /\ droppingToy = NULL => droppingToy' = NULL]_vars

(* A later tick of a DROPPING phase whose release was not eligible. *)
C27_Witness ==
    /\ state = "DROPPING"
    /\ prevState = "DROPPING"
    /\ found # NULL
    /\ droppingToy = NULL
    /\ ~isInExitZone(clawX)
    /\ worldConstraints = 0

---------------------------------------------------------------------------
(* Properties of targeting and of grip resolution *)

(* The toys among the hits whose centre is below the hub *)
C28_Below(hits) ==
    {i \in DOMAIN hits : hits[i].label = "Toy" /\ hits[i].y > CLAW_TOP_HEIGHT}

(* clamp((top - hubY - 40) / maxExtension, 0.1, 1.0), in thousandths *)
C28_Clamp(top) ==
    LET q == ((top - CLAW_TOP_HEIGHT - 40) * 1000) \div maxExtension
    IN  IF q < 100 THEN 100 ELSE IF q > 1000 THEN 1000 ELSE q

(* C28: the target written by a triggering tick is within [0.1, 1.0]; it   *)
(* is clamp((top - hubY - 40) / maxExtension, 0.1, 1.0) for the head top    *)
(* of the toy hit by the ray whose centre is nearest below the hub, and     *)
(* 0.9 when the ray hits no toy with its centre below the hub, whatever     *)
(* static bodies it hits.                                                   *)
C28_DescentTarget ==
    [][(state = "READY" /\ state' = "DESCENDING") =>
         LET hits == obs'.hits
             below == C28_Below(hits)
         IN  /\ targetDescentDepth' \in 100..1000
             /\ below = {} => targetDescentDepth' = 900
             /\ below # {} =>
                  \E i \in below :
                     /\ \A j \in below : hits[i].y <= hits[j].y
                     /\ targetDescentDepth' = C28_Clamp(hits[i].top)]_vars

(* The ray hit the ground and a toy low in the pit: the toy set the target. *)
C28_Witness ==
    /\ state = "DESCENDING"
    /\ prevState = "READY"
    /\ \E i, j \in DOMAIN obs.hits :
          /\ obs.hits[i].label = "Ground"
          /\ obs.hits[j].label = "Toy"
          /\ obs.hits[j].y > CLAW_TOP_HEIGHT
    /\ targetDescentDepth = 1000

(* C29: findToyAt, as called by attemptGrab with radius 22, returns a toy   *)
(* exactly if some body labelled Toy has its centre at a distance strictly  *)
(* below 22; the toy returned is in the world, is labelled Toy, has the     *)
(* least distance of all toys, and is the first in world order of the toys  *)
(* at that distance.                                                        *)
C29_NearestToy ==
    [][(state = "CLOSING" /\ state' = "LIFTING") =>
         LET dist == obs'.dist
             near == {b \in allBodies(toys) : Label(b) = "Toy" /\ dist[b] < 22}
         IN  /\ (found' # NULL) <=> (near # {})
             /\ found' # NULL =>
                  /\ found' \in toys
                  /\ Label(found') = "Toy"
                  /\ \A b \in toys : dist[found'] <= dist[b]
                  /\ \A b \in toys : dist[b] = dist[found'] => found' <= b]_vars

(* Two toys at the same distance with the separator nearer than both: the   *)
(* first toy was returned.                                                  *)
C29_Witness ==
    /\ state = "LIFTING"
    /\ prevState = "CLOSING"
    /\ Cardinality(toys) >= 2
    /\ \A b \in toys : obs.dist[b] = 7
    /\ obs.dist[Separator] = 0
    /\ found = 1

(* C30: at grip resolution a toy is attached exactly if the centre of some  *)
(* toy is less than 22 px from the claw tip; when one is attached it is the *)
(* toy findToyAt returned, isGripUnstable is true exactly when its distance *)
(* is above 7 px, and one constraint, from the tip (hub X, hub Y +          *)
(* extension + 60) to that toy, is created and added to the world; when     *)
(* none is attached isGripUnstable is false and no constraint is created.   *)
C30_GripResolution ==
    [][(state = "CLOSING" /\ state' = "LIFTING") =>
         LET dist == obs'.dist
         IN  /\ (attachedToy' # NULL) <=> (\E toy \in toys : dist[toy] < 22)
             /\ attachedToy' = found'
             /\ attachedToy' # NULL =>
                  /\ isGripUnstable' = (dist[attachedToy'] > 7)
                  /\ worldConstraints' = worldConstraints + 1
                  /\ toyConstraint' =
                        [bodyB |-> attachedToy',
                         pointA |-> [x |-> clawX,
                                     y |-> 50 + (clawDepth * maxExtension) \div 1000 + 60]]
             /\ attachedToy' = NULL =>
                  /\ isGripUnstable' = FALSE
                  /\ worldConstraints' = worldConstraints
                  /\ toyConstraint' = NoConstraint]_vars

(* A toy exactly 7 px off the tip has just been attached, stable. *)
C30_Witness ==
    /\ state = "LIFTING"
    /\ prevState = "CLOSING"
    /\ attachedToy # NULL
    /\ obs.dist[attachedToy] = 7
    /\ ~isGripUnstable
    /\ worldConstraints = 1

---------------------------------------------------------------------------
(* Progress, while ticks keep running (SpecLive) *)

(* C25: every DROPPING phase ends in READY, whatever the released toy does  *)
(* (a toy released over the exit zone that never gets below height + 100    *)
(* included).                                                               *)
C25_DroppingEnds == (state = "DROPPING") ~> (state = "READY")

(* The part of C25 that the code keeps: DROPPING ends once no toy is        *)
(* tracked.                                                                 *)
C25_UntrackedDropEnds ==
    (state = "DROPPING" /\ toyConstraint = NoConstraint /\ droppingToy = NULL)
        ~> (state = "READY")

(* C26: once a grab is triggered the sequence DESCENDING, CLOSING, LIFTING  *)
(* ends: from every state of these phases CARRYING or READY is reached,     *)
(* whatever the hand, the grip and the slip draws, for every target the     *)
(* targeting produces.                                                      *)
C26_SequenceEnds ==
    (state \in {"DESCENDING", "CLOSING", "LIFTING"})
        ~> (state \in {"CARRYING", "READY"})

(* A sequence to the shallowest target has ended in CARRYING: the toy was   *)
(* gripped and no slip fired.                                               *)
C26_Witness ==
    /\ state = "CARRYING"
    /\ prevState = "LIFTING"
    /\ targetDescentDepth = 100
    /\ attachedToy # NULL

(* A sequence to the no-toy target has ended in READY with nothing held. *)
C26_WitnessFailed ==
    /\ state = "READY"
    /\ prevState = "LIFTING"
    /\ targetDescentDepth = NoToyDepth
    /\ found = NULL

(* Whether the steps a run has taken so far are the first steps of order *)
C22_Follows(order) ==
    /\ Len(frame.done) <= Len(order)
    /\ \A i \in DOMAIN frame.done : frame.done[i] = order[i]

(* How many times a run has taken step so far *)
C22_Count(step) == Cardinality({i \in DOMAIN frame.done : frame.done[i] = step})

(* C22 as worded: a run of gameLoop reads the hand, then steps the physics, *)
(* then advances the state machine, then renders.                           *)
C22_Claimed == C22_Follows(<<"hand", "physics", "machine", "render">>)

(* C22: a run of gameLoop that finds its canvas steps the physics, then     *)
(* reads the hand, then advances the state machine, then renders; when the  *)
(* run is over it has taken each of the four steps once, the physics step   *)
(* is taken once before the state machine advances and never after it, and *)
(* a run that finds no canvas takes no step.                                *)
C22_LoopOrder ==
    /\ C22_Follows(<<"physics", "hand", "machine", "render">>)
    /\ frame.pc = "start" => Len(frame.done) \in {0, 4}
    /\ frame.pc = "stopped" => frame.done = <<>>
    /\ C22_Count("physics") <= 1
    /\ C22_Count("machine") <= 1
    /\ C22_Count("machine") = 1 => C22_Count("physics") = 1
    /\ \A i, j \in DOMAIN frame.done :
          frame.done[i] = "machine" /\ frame.done[j] = "physics" => j < i

(* A run of gameLoop is over with its four steps taken, in which the state  *)
(* machine went from READY to DESCENDING.                                   *)
C22_Witness ==
    /\ frame.pc = "start"
    /\ frame.done = <<"physics", "hand", "machine", "render">>
    /\ prevState = "READY"
    /\ state = "DESCENDING"

(* pw without the record of the latest call *)
C31_World(p) == [p EXCEPT !.call = NoCall]

(* C31: init is idempotent: a call of init on a world that init has built  *)
(* changes nothing (width, height, the bodies, walls, engine.world), and   *)
(* an initialised world holds exactly the four static bodies of the first  *)
(* call, ground, left wall, right wall and separator.                      *)
C31_InitIdempotent ==
    /\ []( pw.walls.ground # NULL =>
             /\ pw.world = <<pw.walls.ground, pw.walls.left, pw.walls.right,
                             pw.walls.separator>>
             /\ pw.world = <<1, 2, 3, 4>>
             /\ Len(pw.bodies) = 4
             /\ <<pw.bodies[1].label, pw.bodies[2].label, pw.bodies[3].label,
                  pw.bodies[4].label>> = <<"Ground", "Wall", "Wall", "Separator">> )
    /\ [][pw.walls.ground # NULL /\ pw'.call.op = "init"
             => C31_World(pw') = C31_World(pw)]_vars

(* init has just been called on an initialised world with a width and a    *)
(* height that both differ from the world's, and the bodies are the        *)
(* boundary of the world's own width and height.                           *)
C31_Witness ==
    /\ pw.walls.ground # NULL
    /\ pw.call.op = "init"
    /\ pw.call.width # pw.width
    /\ pw.call.height # pw.height
    /\ pw.bodies = <<boundary(pw.width, pw.height).ground,
                     boundary(pw.width, pw.height).left,
                     boundary(pw.width, pw.height).right,
                     boundary(pw.width, pw.height).separator>>

(* Whether the boundary body wall lies where init(pw.width, pw.height)     *)
(* would have placed it                                                    *)
C32_Placed(wall) ==
    LET body == pw.bodies[pw.walls[wall]]
        made == boundary(pw.width, pw.height)[wall]
    IN  body.x = made.x /\ body.y = made.y

(* C32: after init followed by resize(w, h) every boundary body (ground,   *)
(* left wall, right wall, separator) lies where init(w, h) would have      *)
(* placed it.                                                               *)
C32_ResizeAsInit ==
    pw.walls.ground # NULL /\ pw.call.op = "resize"
        => \A wall \in {"ground", "left", "right", "separator"} : C32_Placed(wall)

(* The part of C32 that the code keeps: the ground, the right wall and the *)
(* separator are moved to their places; the left wall stays where init     *)
(* put it.                                                                  *)
C32_ResizeMovesThree ==
    pw.walls.ground # NULL /\ pw.call.op = "resize"
        => /\ \A wall \in {"ground", "right", "separator"} : C32_Placed(wall)
           /\ pw.bodies[pw.walls.left].x = 8 * (0 - 50)

(* C33: at the end of every tick that began in LIFTING or CARRYING and    *)
(* ends with a toy attached, the anchor pointA of the lift constraint is   *)
(* the claw tip (hub X, hub Y + clawDepth * maxExtension + 60), with the   *)
(* offset of 60 px that attemptGrab used when it created the constraint.   *)
C33_AnchorFollowsTip ==
    /\ prevState \in {"LIFTING", "CARRYING"} /\ attachedToy # NULL
          => toyConstraint.pointA =
                [x |-> clawX,
                 y |-> CLAW_TOP_HEIGHT + (clawDepth * maxExtension) \div 1000 + 60]
    /\ prevState = "CLOSING" /\ state = "LIFTING" /\ attachedToy # NULL
          => toyConstraint.pointA.y - 60 =
                CLAW_TOP_HEIGHT + (clawDepth * maxExtension) \div 1000

(* A CARRYING tick has moved the claw to the right end with the toy held,  *)
(* and the anchor has followed.                                             *)
C33_Witness ==
    /\ prevState = "CARRYING"
    /\ state = "CARRYING"
    /\ attachedToy # NULL
    /\ clawX = 13
    /\ toyConstraint.pointA.x = 13

(* ceil(t / 60) for a timer value of COUNTDOWN *)
C34_Seconds(t) == CHOOSE n \in 0..3 : 60 * (n - 1) < t /\ t <= 60 * n

(* C34: COUNTDOWN lasts exactly 180 ticks: it is entered with the timer at *)
(* 180, each of its ticks takes 1 off, and READY is entered on the tick    *)
(* that brings the timer to 0 and on no other; while the phase is          *)
(* COUNTDOWN the displayed seconds are ceil(countdownTimer / 60), that is  *)
(* 3, 2, 1, and the display is 0 from the tick READY is entered.           *)
C34_CountdownLasts180 ==
    /\ []( /\ state = "WAITING_FOR_TOYS" => countdownTimer = 180
           /\ state = "COUNTDOWN" =>
                /\ countdownTimer \in 1..180
                /\ countdownValue = C34_Seconds(countdownTimer)
                /\ countdownValue \in {3, 2, 1}
           /\ state \notin {"WAITING_FOR_TOYS", "COUNTDOWN"} =>
                countdownTimer = 0 /\ countdownValue = 0 )
    /\ [][state = "COUNTDOWN" =>
             /\ countdownTimer' = countdownTimer - 1
             /\ (state' = "READY") <=> (countdownTimer' = 0)
             /\ (state' = "COUNTDOWN") <=> (countdownTimer' > 0)]_vars

(* The 120th tick of COUNTDOWN has been taken: the timer is at 60 and the  *)
(* display has just gone from 2 to 1.                                       *)
C34_Witness ==
    /\ state = "COUNTDOWN"
    /\ prevState = "COUNTDOWN"
    /\ countdownTimer = 60
    /\ countdownValue = 1

(* The 180th tick of COUNTDOWN has entered READY with the display at 0. *)
C34_WitnessReady ==
    /\ state = "READY"
    /\ prevState = "COUNTDOWN"
    /\ countdownTimer = 0
    /\ countdownValue = 0

(* C35: at the end of every tick attachedToy is set exactly when           *)
(* toyConstraint is, and no CARRYING tick takes the fallback to READY that *)
(* tests for a missing toy or constraint: CARRYING is left for DROPPING    *)
(* only.                                                                    *)
C35_ToyIffConstraint ==
    /\ []((attachedToy # NULL) <=> (toyConstraint # NoConstraint))
    /\ [][state = "CARRYING" => state' \in {"CARRYING", "DROPPING"}]_vars

(* The first DROPPING tick has released a toy that a grab had attached:    *)
(* both attachedToy and toyConstraint are cleared.                          *)
C35_Witness ==
    /\ state = "DROPPING"
    /\ prevState = "DROPPING"
    /\ found # NULL
    /\ attachedToy = NULL
    /\ toyConstraint = NoConstraint
    /\ clawAngle = 1000 - AngleRate

(* Whether the tick that follows an absent-hand READY tick handed h, and   *)
(* is itself handed next, triggers a grab                                  *)
C36_TriggersAfter(h, next) ==
    Ready(Ready(Cur, h, NoHit), next, NoHit).state = "DESCENDING"

(* C36: whether and when a grab is triggered does not depend on the        *)
(* gesture label of absent-hand ticks: from every reachable READY state,   *)
(* two absent samples that differ only in their label are followed by a    *)
(* grab on the next tick for the same next samples.                        *)
C36_AbsentLabelIgnored ==
    state = "READY" =>
        \A h1, h2 \in {h \in Samples : ~h.isPresent} :
            \A next \in {h \in HandInput : h.x = 1} :
                C36_TriggersAfter(h1, next) <=> C36_TriggersAfter(h2, next)

(* C37: with 5 starting credits, 0 <= creditsRef <= 5 and                  *)
(* score + creditsRef <= 5 in every reachable state; creditsRef never      *)
(* increases; the score never exceeds the number of grabs triggered, which *)
(* is the number of credits spent.                                          *)
C37_CreditsAndScore ==
    /\ []( /\ 0 <= creditsRef /\ creditsRef <= 5
           /\ score + creditsRef <= 5
           /\ score >= 0
           /\ score <= 5 - creditsRef )
    /\ [][/\ creditsRef' <= creditsRef
          /\ score' > score => creditsRef < 5]_vars

(* Two grabs have been triggered and both have scored. *)
C37_Witness ==
    /\ creditsRef = 3
    /\ score = 2
    /\ state = "READY"

(* C38: the pose of the claw is fixed by the phase at the end of every     *)
(* tick: clawDepth = 0 in WAITING_FOR_TOYS, COUNTDOWN, READY, CARRYING and *)
(* DROPPING; clawAngle = 0 in WAITING_FOR_TOYS, COUNTDOWN, READY and       *)
(* DESCENDING; clawAngle = 1 in LIFTING and CARRYING.                      *)
C38_PoseByPhase ==
    /\ state \in {"WAITING_FOR_TOYS", "COUNTDOWN", "READY", "CARRYING", "DROPPING"}
          => clawDepth = 0
    /\ state \in {"WAITING_FOR_TOYS", "COUNTDOWN", "READY", "DESCENDING"}
          => clawAngle = 0
    /\ state \in {"LIFTING", "CARRYING"} => clawAngle = 1000

(* A lift has ended in CARRYING: the claw is all the way up and closed. *)
C38_Witness ==
    /\ state = "CARRYING"
    /\ prevState = "LIFTING"
    /\ clawDepth = 0
    /\ clawAngle = 1000
    /\ targetDescentDepth = NoToyDepth

(* C39: the game has no way back to the start and no refill: once the     *)
(* phase is neither WAITING_FOR_TOYS nor COUNTDOWN no tick enters either   *)
(* of them, COUNTDOWN never goes back to WAITING_FOR_TOYS, and a tick that *)
(* begins in READY with creditsRef = 0 ends in READY with creditsRef = 0,  *)
(* whatever its input.                                                      *)
C39_NoWayBack ==
    [][/\ state \notin {"WAITING_FOR_TOYS", "COUNTDOWN"}
             => state' \notin {"WAITING_FOR_TOYS", "COUNTDOWN"}
       /\ state = "COUNTDOWN" => state' # "WAITING_FOR_TOYS"
       /\ (state = "READY" /\ creditsRef = 0)
             => (state' = "READY" /\ creditsRef' = 0)]_vars

(* A READY tick with no credit left has seen a rising edge of PINCH and    *)
(* has stayed in READY.                                                     *)
C39_Witness ==
    /\ state = "READY"
    /\ prevState = "READY"
    /\ creditsRef = 0
    /\ pinchEdge

(* C40: getStableGesture returns the raw gesture it was just given, for    *)
(* every history of raw gestures: with a history of 5 and a threshold of   *)
(* ceil(5 * 0.85) = 5 the vote never outputs another gesture than that of  *)
(* the latest frame, so a present sample carries the latest raw gesture.   *)
C40_VoteIsLatest ==
    /\ tracker.returned = tracker.given
    /\ Len(tracker.gestureHistory) <= 5
    /\ tracker.gestureHistory # <<>> =>
          /\ tracker.returned = tracker.gestureHistory[Len(tracker.gestureHistory)]
          /\ tracker.lastResult.gesture = tracker.returned
    /\ \A g \in RawGesture :
          counts(tracker.gestureHistory, g) >= 5 => tracker.returned = g

(* The history holds four PINCH frames and then an OPEN frame, and OPEN    *)
(* was returned.                                                            *)
C40_Witness ==
    /\ tracker.gestureHistory = <<"PINCH", "PINCH", "PINCH", "PINCH", "OPEN">>
    /\ tracker.given = "OPEN"
    /\ tracker.returned = "OPEN"
    /\ tracker.lastResult.isPresent

===========================================================================
